---- MODULE Spec2Model ----
(***************************************************************************)
(* A model of the multi-modal RAG chatbot's core: the structure-aware      *)
(* chunker (src/src/data_processing.py, partition_and_chunk) and the       *)
(* hybrid retriever (src/src/vector_store.py, create_retriever, with the   *)
(* weighted reciprocal-rank fusion of the EnsembleRetriever it builds).    *)
(*                                                                         *)
(* Strings are sequences of tokens: a token is one character of an         *)
(* element's text ("A", "x", " ", "\n") or one literal of an f-string      *)
(* ("[Image under '"), so concatenation is \o and str.strip() is computed. *)
(***************************************************************************)
EXTENDS Integers, Sequences, FiniteSets, TLC

VARIABLES
    pc,                       \* position in partition_and_chunk
    use_enhanced_processing,  \* argument of partition_and_chunk
    openai_api_key,           \* argument of partition_and_chunk
    dir_created,              \* os.makedirs(image_output_dir) has run
    partition_started,        \* partition_pdf(...) has been called
    raw_pdf_elements,         \* the elements enumerated so far, in order
    documents,                \* the list of Documents built so far
    current_title,
    current_text_block,
    metadata,                 \* the loop's metadata dict (of the last element)
    summary_calls,            \* calls made to summarize_image / summarize_table
    summary_outcome,          \* what the collaborator does when asked, this step
    chunk_result,             \* the list partition_and_chunk returned (pc = "done")
    r_pc,                     \* position in create_retriever / retrieval
    r_documents,              \* argument of create_retriever
    retriever,                \* the value create_retriever returned
    dense_index,              \* documents held by the Chroma vector store
    sparse_index,             \* documents held by the BM25 retriever
    dense_list,               \* candidates of the dense retriever, best first
    sparse_list,              \* candidates of the BM25 retriever, best first
    fused,                    \* the EnsembleRetriever's result
    first_pass,               \* the elements and result of an earlier pass
    app_pc,                   \* position of the app's script run
    rag_chain,                \* st.session_state.rag_chain
    processed_file,           \* st.session_state.processed_file
    session_id,               \* st.session_state.session_id (0: not set)
    redis,                    \* the messages Redis stores, per session id
    uuids,                    \* the session ids uuid4 has handed out
    job,                      \* the last process_pdf call and how it ended
    turn                      \* the last chat turn: its prompt and how it ended

vars == <<pc, use_enhanced_processing, openai_api_key, dir_created,
          partition_started, raw_pdf_elements, documents, current_title,
          current_text_block, metadata, summary_calls, summary_outcome,
          chunk_result, r_pc, r_documents, retriever, dense_index,
          sparse_index, dense_list, sparse_list, fused, first_pass, app_pc,
          rag_chain, processed_file, session_id, redis, uuids, job, turn>>

chunkVars == <<pc, use_enhanced_processing, openai_api_key, dir_created,
               partition_started, raw_pdf_elements, documents, current_title,
               current_text_block, metadata, summary_calls, summary_outcome,
               chunk_result>>

retrVars == <<r_pc, r_documents, retriever, dense_index, sparse_index,
              dense_list, sparse_list, fused>>

appVars == <<app_pc, rag_chain, processed_file, session_id, redis, uuids, job,
             turn>>

(***************************************************************************)
(* Bounds of the model.                                                    *)
(***************************************************************************)
\* the longest element sequence partition_pdf returns
MaxElems == 4

\* the most documents handed to create_retriever
MaxDocs == 3

\* the longest candidate list handed to the fusion
MaxList == 3

\* the most session ids uuid4 hands out
MaxIds == 2

\* the most messages a session's history holds when a chat turn starts
MaxMessages == 1

None == "None"

(***************************************************************************)
(* Strings.                                                                *)
(***************************************************************************)
NL == "\n"

Whitespace == {" ", NL}

RECURSIVE LStrip(_)
LStrip(s) ==
    IF s # <<>> /\ Head(s) \in Whitespace THEN LStrip(Tail(s)) ELSE s

RECURSIVE RStrip(_)
RStrip(s) ==
    IF s # <<>> /\ s[Len(s)] \in Whitespace
    THEN RStrip(SubSeq(s, 1, Len(s) - 1))
    ELSE s

\* str.strip()
Strip(s) == RStrip(LStrip(s))

\* s.startswith(p)
StartsWith(s, p) == Len(p) <= Len(s) /\ SubSeq(s, 1, Len(p)) = p

(***************************************************************************)
(* Layout elements (unstructured.documents.elements).  Every class the     *)
(* chunker imports derives from Text, Image and Table included; CheckBox   *)
(* is the library's element class that does not.                           *)
(***************************************************************************)
Kinds == {"Title", "Header", "NarrativeText", "ListItem", "Text", "Image",
          "Table", "CheckBox"}

\* no element class deriving from Text
BaseClass_Flat(kind) == "Element"

\* the direct base class of each element class
BaseClass(kind) == IF kind \in {"Text", "CheckBox"} THEN "Element" ELSE "Text"

\* isinstance(el, classes)
IsInstance(el, classes) ==
    el.kind \in classes \/ BaseClass(el.kind) \in classes

\* el.metadata.text_as_html is None or the table's HTML; el.metadata.page_number
\* is falsy (0: None) or the page
El(kind, text, page_number, text_as_html) ==
    [kind |-> kind, text |-> text, page_number |-> page_number,
     text_as_html |-> text_as_html]

\* the elements partition_pdf may return
Elements ==
    {El("Title", <<>>, 0, None),
     El("Title", <<"A">>, 0, None),
     El("Title", <<"B">>, 2, None),
     El("Header", <<"A">>, 0, None),
     El("NarrativeText", <<"x">>, 0, None),
     El("NarrativeText", <<"y">>, 2, None),
     El("ListItem", <<" ", "x">>, 0, None),
     El("Text", <<" ">>, 0, None),
     El("Image", <<>>, 0, None),
     El("Image", <<"y">>, 2, None),
     El("Table", <<"x">>, 0, "<table>"),
     El("Table", <<"x">>, 0, None),
     El("CheckBox", <<>>, 0, None)}

SourceName == "doc.pdf"

\* what summarize_image / summarize_table does when called: a summary or an
\* exception (encode_image failing on the image path included)
SummaryOutcomes ==
    {[raised |-> FALSE, summary |-> <<"X">>],
     [raised |-> TRUE, summary |-> <<>>]}

\* no image or table is at hand: there is nothing to ask the collaborator
NotAsked == [raised |-> FALSE, summary |-> <<>>]

\* the collaborator's possible behaviours on element el
OutcomesFor(enhanced, el) ==
    IF enhanced /\ el.kind \in {"Image", "Table"} THEN SummaryOutcomes
    ELSE {NotAsked}

\* before the loop's first iteration the name metadata is unbound
Unbound == [source |-> SourceName, page_number |-> 0, element_id |-> -1]

ApiKeys == {None, "", "sk"}

(***************************************************************************)
(* partition_and_chunk                                                     *)
(***************************************************************************)
\* Document(page_content=..., metadata=metadata)
Document(page_content, meta) == [page_content |-> page_content, metadata |-> meta]

\* the block untrimmed
TextContent_NoStrip(title, block) == title \o <<NL, NL>> \o block

\* a single line break after the title
TextContent_NoBlankLine(title, block) == title \o <<NL>> \o Strip(block)

\* f"{current_title}\n\n{current_text_block.strip()}"
TextContent(title, block) == title \o <<NL, NL>> \o Strip(block)

\* f"[Image under '{current_title}']\nSummary: {summary}"
SummaryContent(label, title, summary) ==
    <<label>> \o title \o <<"']", NL, "Summary: ">> \o summary

\* f"[Image under '{current_title}']"
FallbackContent(label, title) == <<label>> \o title \o <<"']">>

\* the index counted from 1
Metadata_FromOne(i, el) ==
    [source |-> SourceName,
     page_number |-> IF el.page_number = 0 THEN 1 ELSE el.page_number,
     element_id |-> i + 1]

\* the metadata dict of loop index i (0-based) and element el
Metadata(i, el) ==
    [source |-> SourceName,
     page_number |-> IF el.page_number = 0 THEN 1 ELSE el.page_number,
     element_id |-> i]

\* the unit emitted for an image or table: the summary, or the fallback
\* when the collaborator raises
MediaUnit(label, title, outcome, meta) ==
    IF outcome.raised
    THEN Document(FallbackContent(label, title), meta)
    ELSE Document(SummaryContent(label, title, outcome.summary), meta)

\* the flush without its guard
Flushed_Always(docs, title, block, meta) ==
    Append(docs, Document(TextContent(title, block), meta))

\* "if current_text_block: documents.append(...)"
Flushed(docs, title, block, meta) ==
    IF block # <<>> THEN Append(docs, Document(TextContent(title, block), meta))
    ELSE docs

\* create_retriever's "return None"
NoRetriever == [class |-> "NoneType"]

\* no earlier pass of the chunker
NoPass ==
    [done |-> FALSE, elements |-> <<>>, result |-> <<>>,
     last_outcome |-> [raised |-> FALSE, summary |-> <<>>]]

\* no process_pdf call yet
NoJob == [uploaded_file |-> None, outcome |-> None]

\* no chat turn yet
NoTurn == [prompt |-> None, outcome |-> None]

\* st.session_state.rag_chain = None
NoChain == [class |-> "NoneType"]

\* the app's script has not run: no session state, nothing stored
AppIdle ==
    /\ app_pc = "idle"
    /\ rag_chain = NoChain
    /\ processed_file = None
    /\ session_id = 0
    /\ redis = [id \in 1..MaxIds |-> <<>>]
    /\ uuids = 0
    /\ job = NoJob
    /\ turn = NoTurn

\* create_retriever has not been called
RetrIdle ==
    /\ r_pc = "idle"
    /\ r_documents = <<>>
    /\ retriever = NoRetriever
    /\ dense_index = <<>>
    /\ sparse_index = <<>>
    /\ dense_list = <<>>
    /\ sparse_list = <<>>
    /\ fused = <<>>

\* a key that counts as missing only when it is None
MissingKey_NoneOnly(enhanced, key) == enhanced /\ key = None

\* "use_enhanced_processing and not openai_api_key"
MissingKey(enhanced, key) == enhanced /\ key \in {None, ""}

ChunkInit ==
    /\ RetrIdle
    /\ AppIdle
    /\ first_pass = NoPass
    /\ pc = "start"
    /\ use_enhanced_processing \in BOOLEAN
    /\ openai_api_key \in (IF use_enhanced_processing THEN ApiKeys ELSE {None})
    /\ dir_created = FALSE
    /\ partition_started = FALSE
    /\ raw_pdf_elements = <<>>
    /\ documents = <<>>
    /\ current_title = <<>>
    /\ current_text_block = <<>>
    /\ metadata = Unbound
    /\ summary_calls = 0
    /\ summary_outcome = NotAsked
    /\ chunk_result = <<>>

\* lines 47-65: the precondition, the image directory, the layout extraction
\* and the accumulator's initial values
ChunkStart ==
    /\ pc = "start"
    /\ IF MissingKey(use_enhanced_processing, openai_api_key)
       THEN /\ pc' = "raised"
            /\ UNCHANGED <<dir_created, partition_started>>
       ELSE /\ pc' = "loop"
            /\ dir_created' = TRUE
            /\ partition_started' = TRUE
    /\ UNCHANGED <<use_enhanced_processing, openai_api_key, raw_pdf_elements,
                   documents, current_title, current_text_block, metadata,
                   summary_calls, summary_outcome, chunk_result>>
    /\ UNCHANGED retrVars
    /\ UNCHANGED <<first_pass, appVars>>

\* lines 67-103: one iteration of the loop, on the next element el; outcome
\* is what the summarization collaborator does if this iteration calls it
ProcessElement(el, outcome) ==
    LET i == Len(raw_pdf_elements)
        meta == Metadata(i, el)
        flushed == Flushed(documents, current_title, current_text_block, meta)
    IN
    /\ pc = "loop"
    /\ i < MaxElems
    /\ raw_pdf_elements' = Append(raw_pdf_elements, el)
    /\ metadata' = meta
    /\ summary_outcome' = outcome
    /\ IF IsInstance(el, {"Title", "Header"})
       THEN /\ documents' = flushed
            /\ current_title' = el.text
            /\ current_text_block' = <<>>
            /\ UNCHANGED summary_calls
       ELSE IF IsInstance(el, {"NarrativeText", "ListItem", "Text"})
       THEN /\ current_text_block' = current_text_block \o el.text \o <<NL>>
            /\ UNCHANGED <<documents, current_title, summary_calls>>
       ELSE IF use_enhanced_processing
       THEN /\ current_title' = current_title
            /\ current_text_block' = <<>>
            /\ IF IsInstance(el, {"Image"})
               THEN /\ documents' = Append(flushed,
                          MediaUnit("[Image under '", current_title, outcome, meta))
                    /\ summary_calls' = summary_calls + 1
               ELSE IF IsInstance(el, {"Table"}) /\ el.text_as_html # None
               THEN /\ documents' = Append(flushed,
                          MediaUnit("[Table under '", current_title, outcome, meta))
                    /\ summary_calls' = summary_calls + 1
               ELSE /\ documents' = flushed
                    /\ UNCHANGED summary_calls
       ELSE UNCHANGED <<documents, current_title, current_text_block,
                        summary_calls>>
    /\ UNCHANGED <<pc, use_enhanced_processing, openai_api_key, dir_created,
                   partition_started, chunk_result>>
    /\ UNCHANGED retrVars
    /\ UNCHANGED <<first_pass, appVars>>

\* lines 105-109: the elements are exhausted; the last flush and the return
ChunkFinish ==
    /\ pc = "loop"
    /\ documents' = Flushed(documents, current_title, current_text_block, metadata)
    /\ chunk_result' = documents'
    /\ pc' = "done"
    /\ UNCHANGED <<use_enhanced_processing, openai_api_key, dir_created,
                   partition_started, raw_pdf_elements, current_title,
                   current_text_block, metadata, summary_calls, summary_outcome>>
    /\ UNCHANGED retrVars
    /\ UNCHANGED <<first_pass, appVars>>

ChunkStep ==
    /\ pc = "loop"
    /\ \E el \in Elements :
        \E outcome \in OutcomesFor(use_enhanced_processing, el) :
            ProcessElement(el, outcome)

ChunkNext == ChunkStart \/ ChunkStep \/ ChunkFinish


(***************************************************************************)
(* create_retriever and the EnsembleRetriever it returns.                  *)
(***************************************************************************)
\* the units the retriever is built from and ranks; two of them have the
\* same page_content and differ in their metadata
Unit(content, i) ==
    Document(content, [source |-> SourceName, page_number |-> 1, element_id |-> i])

Units ==
    {Unit(<<"A">>, 0), Unit(<<"B">>, 1), Unit(<<"C">>, 2), Unit(<<"D">>, 3),
     Unit(<<"A">>, 4)}

\* the sequences over S of length at most n
SeqsUpTo(S, n) == UNION { [1..m -> S] : m \in 0..n }

\* search_kwargs={"k": 10}
KDense == 10

\* bm25_retriever.k = 10
KSparse == 10

\* weights=[0.7, 0.3], in tenths
Weights == <<7, 3>>

\* the constant c of the EnsembleRetriever's rank term weight / (rank + c)
RrfC == 60

\* EnsembleRetriever(retrievers=[dense_retriever, bm25_retriever], weights=...)
EnsembleRetriever(weights) ==
    [class |-> "EnsembleRetriever", weights |-> weights,
     k_dense |-> KDense, k_sparse |-> KSparse]

\* the guard on the documents left out
NoDocuments_Never(docs) == FALSE

\* "not documents"
NoDocuments(docs) == Len(docs) = 0

\* the first k entries of a ranking
Take(s, k) == SubSeq(s, 1, IF Len(s) < k THEN Len(s) ELSE k)

\* the orders in which a sub-retriever may rank the n documents of its index
Rankings(n) == {f \in [1..n -> 1..n] : \A i, j \in 1..n : i # j => f[i] # f[j]}

Ranked(index, f) == [i \in 1..Len(index) |-> index[f[i]]]

\* the common denominator (1 + c) * ... * (n + c) of the rank terms of lists
\* of length at most n: scores are compared as exact fractions over it (the
\* code adds floats; two unequal scores of lists this short differ by far
\* more than a rounding error)
RECURSIVE Denominator(_)
Denominator(n) == IF n = 0 THEN 1 ELSE (n + RrfC) * Denominator(n - 1)

LongestLen(doc_lists) ==
    IF Len(doc_lists[1]) < Len(doc_lists[2]) THEN Len(doc_lists[2])
    ELSE Len(doc_lists[1])

\* the rank term without the constant c: weight / rank
RankTerm_NoOffset(weight, rank, denom) == weight * (denom \div rank)

\* weight / (rank + c), times denom
RankTerm(weight, rank, denom) == weight * (denom \div (rank + RrfC))

\* the sum of the rank terms of the ranks 1..n of doc_list that hold key
RECURSIVE ListScore(_, _, _, _, _)
ListScore(doc_list, n, key, weight, denom) ==
    IF n = 0 THEN 0
    ELSE ListScore(doc_list, n - 1, key, weight, denom)
         + (IF doc_list[n].page_content = key
            THEN RankTerm(weight, n, denom) ELSE 0)

\* the two weights handed to the wrong lists
RrfScore_SwappedWeights(key, doc_lists, weights) ==
    LET denom == Denominator(LongestLen(doc_lists))
    IN  ListScore(doc_lists[1], Len(doc_lists[1]), key, weights[2], denom)
        + ListScore(doc_lists[2], Len(doc_lists[2]), key, weights[1], denom)

\* rrf_score[doc.page_content], times the common denominator
RrfScore(key, doc_lists, weights) ==
    LET denom == Denominator(LongestLen(doc_lists))
    IN  ListScore(doc_lists[1], Len(doc_lists[1]), key, weights[1], denom)
        + ListScore(doc_lists[2], Len(doc_lists[2]), key, weights[2], denom)

\* every document kept
UniqueByKey_KeepAll(docs, seen) == docs

\* unique_by_key(all_docs, lambda doc: doc.page_content): the first document
\* of each page_content, in order
RECURSIVE UniqueByKey(_, _)
UniqueByKey(docs, seen) ==
    IF docs = <<>> THEN <<>>
    ELSE IF Head(docs).page_content \in seen THEN UniqueByKey(Tail(docs), seen)
    ELSE <<Head(docs)>>
         \o UniqueByKey(Tail(docs), seen \cup {Head(docs).page_content})

\* the sort without reverse=True
GoesBefore_Ascending(a, b) == a < b

\* whether a document of score a goes before an earlier-listed one of score b
\* in sorted(..., reverse=True)
GoesBefore(a, b) == a > b

\* doc put into the sorted list: after every document it does not go before
\* (the sort is stable)
RECURSIVE Inserted(_, _, _)
Inserted(sorted, doc, score) ==
    IF sorted = <<>> THEN <<doc>>
    ELSE IF GoesBefore(score[doc.page_content], score[sorted[Len(sorted)].page_content])
    THEN Append(Inserted(SubSeq(sorted, 1, Len(sorted) - 1), doc, score),
                sorted[Len(sorted)])
    ELSE Append(sorted, doc)

\* sorted(docs, reverse=True, key=lambda doc: rrf_score[doc.page_content])
RECURSIVE SortedByScore(_, _, _)
SortedByScore(docs, n, score) ==
    IF n = 0 THEN <<>>
    ELSE Inserted(SortedByScore(docs, n - 1, score), docs[n], score)

\* EnsembleRetriever.weighted_reciprocal_rank(doc_lists)
WeightedReciprocalRank(doc_lists, weights) ==
    LET all_docs == doc_lists[1] \o doc_lists[2]
        keys == {all_docs[i].page_content : i \in 1..Len(all_docs)}
        rrf_score == [key \in keys |-> RrfScore(key, doc_lists, weights)]
        unique == UniqueByKey(all_docs, {})
    IN  SortedByScore(unique, Len(unique), rrf_score)

ChunkIdle ==
    /\ pc = "idle"
    /\ use_enhanced_processing = FALSE
    /\ openai_api_key = None
    /\ dir_created = FALSE
    /\ partition_started = FALSE
    /\ raw_pdf_elements = <<>>
    /\ documents = <<>>
    /\ current_title = <<>>
    /\ current_text_block = <<>>
    /\ metadata = Unbound
    /\ summary_calls = 0
    /\ summary_outcome = NotAsked
    /\ chunk_result = <<>>
    /\ first_pass = NoPass

\* create_retriever(docs, openai_api_key); embed_ok is whether the embedding
\* collaborator answers when Chroma.from_documents embeds the documents
CreateRetriever(docs, embed_ok) ==
    /\ r_pc = "idle"
    /\ r_documents' = docs
    /\ IF NoDocuments(docs)
       THEN /\ retriever' = NoRetriever
            /\ r_pc' = "returned"
            /\ UNCHANGED <<dense_index, sparse_index>>
       ELSE IF ~embed_ok
       THEN /\ r_pc' = "raised"
            /\ UNCHANGED <<retriever, dense_index, sparse_index>>
       ELSE /\ dense_index' = docs
            /\ sparse_index' = docs
            /\ retriever' = EnsembleRetriever(Weights)
            /\ r_pc' = "returned"
    /\ UNCHANGED <<dense_list, sparse_list, fused>>
    /\ UNCHANGED chunkVars
    /\ UNCHANGED <<first_pass, appVars>>

\* retriever.invoke(question): each sub-retriever ranks its index and returns
\* its k best, and the ensemble fuses the two lists
Retrieve(dense_rank, sparse_rank) ==
    /\ r_pc = "returned"
    /\ retriever # NoRetriever
    /\ dense_list' = Take(Ranked(dense_index, dense_rank), retriever.k_dense)
    /\ sparse_list' = Take(Ranked(sparse_index, sparse_rank), retriever.k_sparse)
    /\ fused' = WeightedReciprocalRank(<<dense_list', sparse_list'>>, retriever.weights)
    /\ r_pc' = "queried"
    /\ UNCHANGED <<r_documents, retriever, dense_index, sparse_index>>
    /\ UNCHANGED chunkVars
    /\ UNCHANGED <<first_pass, appVars>>

RetrBuild ==
    /\ r_pc = "idle"
    /\ \E docs \in SeqsUpTo(Units, MaxDocs), embed_ok \in BOOLEAN :
        CreateRetriever(docs, embed_ok)

RetrQuery ==
    /\ r_pc = "returned"
    /\ \E dense_rank \in Rankings(Len(dense_index)),
       sparse_rank \in Rankings(Len(sparse_index)) :
        Retrieve(dense_rank, sparse_rank)

RetrNext == RetrBuild \/ RetrQuery

RetrInit == ChunkIdle /\ RetrIdle /\ AppIdle

SpecRetriever == RetrInit /\ [][RetrNext]_vars

\* the fusion alone, on any two candidate lists
FuseInit ==
    /\ ChunkIdle
    /\ AppIdle
    /\ r_pc = "lists"
    /\ r_documents = <<>>
    /\ retriever = EnsembleRetriever(Weights)
    /\ dense_index = <<>>
    /\ sparse_index = <<>>
    /\ dense_list \in SeqsUpTo(Units, IF MaxList < KDense THEN MaxList ELSE KDense)
    /\ sparse_list \in SeqsUpTo(Units, IF MaxList < KSparse THEN MaxList ELSE KSparse)
    /\ fused = <<>>

Fuse ==
    /\ r_pc = "lists"
    /\ fused' = WeightedReciprocalRank(<<dense_list, sparse_list>>, retriever.weights)
    /\ r_pc' = "fused"
    /\ UNCHANGED <<r_documents, retriever, dense_index, sparse_index,
                   dense_list, sparse_list>>
    /\ UNCHANGED chunkVars
    /\ UNCHANGED <<first_pass, appVars>>

FuseNext == Fuse

SpecFuse == FuseInit /\ [][FuseNext]_vars

\* the weights an EnsembleRetriever may be built with, in tenths: both at
\* least 0 and one of them more; create_retriever passes <<7, 3>>
DenseWeights == {0, 1, 7, 10}

SparseWeights == {0, 3}

WeightPairs ==
    {w \in DenseWeights \X SparseWeights : w[1] > 0 \/ w[2] > 0}

\* candidates for the weighted fusion: two of them have the same content
WeightedUnits == {Unit(<<"A">>, 0), Unit(<<"B">>, 1), Unit(<<"B">>, 4)}

\* the fusion under any weights, on any two candidate lists
WeightsInit ==
    /\ ChunkIdle
    /\ AppIdle
    /\ r_pc = "lists"
    /\ r_documents = <<>>
    /\ retriever \in {EnsembleRetriever(w) : w \in WeightPairs}
    /\ dense_index = <<>>
    /\ sparse_index = <<>>
    /\ dense_list \in SeqsUpTo(WeightedUnits, IF MaxList < KDense THEN MaxList ELSE KDense)
    /\ sparse_list \in SeqsUpTo(WeightedUnits, IF MaxList < KSparse THEN MaxList ELSE KSparse)
    /\ fused = <<>>

\* the ensemble built anew with the dense weight w, the sparse weight kept,
\* and asked to fuse the same two candidate lists
Reweighted(w) ==
    /\ r_pc \in {"fused", "reweighted"}
    /\ w > retriever.weights[1]
    /\ retriever' = EnsembleRetriever(<<w, retriever.weights[2]>>)
    /\ fused' = WeightedReciprocalRank(<<dense_list, sparse_list>>, retriever'.weights)
    /\ r_pc' = "reweighted"
    /\ UNCHANGED <<r_documents, dense_index, sparse_index, dense_list, sparse_list>>
    /\ UNCHANGED chunkVars
    /\ UNCHANGED <<first_pass, appVars>>

RaiseDense ==
    /\ r_pc \in {"fused", "reweighted"}
    /\ \E w \in DenseWeights : Reweighted(w)

WeightsNext == Fuse \/ RaiseDense

SpecWeights == WeightsInit /\ [][WeightsNext]_vars

(***************************************************************************)
(* The app (src/app.py): process_pdf, the session state and the chat.      *)
(***************************************************************************)
\* the names of the files a user uploads
Files == {"a.pdf", "b.pdf"}

\* what a user asks
Prompts == {"q1", "q2"}

\* what the chain answers
Responses == {"r"}

\* the messages of a RedisChatMessageHistory
HumanMessage(content) == [type |-> "human", content |-> content]

AIMessage(content) == [type |-> "ai", content |-> content]

\* the lists partition_and_chunk may return to process_pdf
ChunkedDocuments == {<<>>, <<Unit(<<"A">>, 0)>>}

\* the call of process_pdf that raises, if any: get_openai_api_key,
\* partition_and_chunk, create_retriever, get_rag_chain, or the display of
\* the log after the session state is set
RaisePoints == {"none", "key", "chunk", "retriever", "chain", "log"}

\* what create_retriever returns for docs when it returns
CreatedRetriever(docs) ==
    IF NoDocuments(docs) THEN NoRetriever ELSE EnsembleRetriever(Weights)

\* get_rag_chain(retriever); built_from names the file whose documents the
\* retriever indexes
RagChain(ensemble, uploaded_file) ==
    [class |-> "rag_chain", retriever |-> ensemble, built_from |-> uploaded_file]

\* how a call of process_pdf ends (lines 52-117): docs is what
\* partition_and_chunk returns if it returns, raises_at the call that raises
RunOutcome(docs, raises_at) ==
    IF raises_at \in {"key", "chunk"} THEN "raised"
    ELSE IF NoDocuments(docs) THEN "no_documents"
    ELSE IF raises_at = "retriever" THEN "raised"
    ELSE IF CreatedRetriever(docs) = NoRetriever THEN "no_retriever"
    ELSE IF raises_at = "chain" THEN "raised"
    ELSE IF raises_at = "log" THEN "processed_then_raised"
    ELSE "processed"

\* the runs that reached lines 94-100
Processed == {"processed", "processed_then_raised"}

\* the session id kept
SessionReset_Kept(sid) == sid

\* 'if "session_id" in st.session_state: del st.session_state["session_id"]'
SessionReset(sid) == 0

\* get_session_id(): the id of the session, a new uuid4 when there is none;
\* n ids have been handed out
GetSessionId(sid, n) == IF sid = 0 THEN n + 1 ELSE sid

\* an AI message stored whatever the invocation did
AfterInvoke_Always(messages, answered, response) ==
    Append(messages, AIMessage(response))

\* lines 164-179: history.add_ai_message(response) unless the invocation, or
\* anything before the call of add_ai_message, raised
AfterInvoke(messages, answered, response) ==
    IF answered THEN Append(messages, AIMessage(response)) ELSE messages

\* the app after lines 44-47 of its first script run
AppInit ==
    /\ ChunkIdle
    /\ RetrIdle
    /\ app_pc = "ready"
    /\ rag_chain = NoChain
    /\ processed_file = None
    /\ session_id = 0
    /\ redis = [id \in 1..MaxIds |-> <<>>]
    /\ uuids = 0
    /\ job = NoJob
    /\ turn = NoTurn

\* the "Process Document" button with a file uploaded: process_pdf (50-120)
ProcessPdf(uploaded_file, docs, raises_at) ==
    LET outcome == RunOutcome(docs, raises_at)
    IN  /\ app_pc = "ready"
        /\ uuids < MaxIds
        /\ job' = [uploaded_file |-> uploaded_file, outcome |-> outcome]
        /\ IF outcome \in Processed
           THEN /\ rag_chain' = RagChain(CreatedRetriever(docs), uploaded_file)
                /\ processed_file' = uploaded_file
                /\ session_id' = SessionReset(session_id)
           ELSE UNCHANGED <<rag_chain, processed_file, session_id>>
        /\ app_pc' = "main"
        /\ UNCHANGED <<redis, uuids, turn>>
        /\ UNCHANGED <<chunkVars, retrVars, first_pass>>

\* lines 141-152 of the script run that called process_pdf: with a chain,
\* get_message_history() and the display of the stored messages
Render ==
    /\ app_pc = "main"
    /\ IF rag_chain # NoChain
       THEN /\ session_id' = GetSessionId(session_id, uuids)
            /\ uuids' = IF session_id = 0 THEN uuids + 1 ELSE uuids
       ELSE UNCHANGED <<session_id, uuids>>
    /\ app_pc' = "ready"
    /\ UNCHANGED <<rag_chain, processed_file, redis, job, turn>>
    /\ UNCHANGED <<chunkVars, retrVars, first_pass>>

\* lines 147-159 of a script run with a prompt p in the chat input
SubmitPrompt(p) ==
    LET sid == GetSessionId(session_id, uuids)
    IN  /\ app_pc = "ready"
        /\ rag_chain # NoChain
        /\ sid <= MaxIds
        /\ Len(redis[sid]) <= MaxMessages
        /\ session_id' = sid
        /\ uuids' = IF session_id = 0 THEN uuids + 1 ELSE uuids
        /\ redis' = [redis EXCEPT ![sid] = Append(@, HumanMessage(p))]
        /\ turn' = [prompt |-> p, outcome |-> "invoking"]
        /\ app_pc' = "invoking"
        /\ UNCHANGED <<rag_chain, processed_file, job>>
        /\ UNCHANGED <<chunkVars, retrVars, first_pass>>

\* lines 162-179: the chain is invoked with the prompt and the stored
\* messages; answered is whether it returns an answer that gets displayed
InvokeChain(answered, response) ==
    /\ app_pc = "invoking"
    /\ redis' = [redis EXCEPT ![session_id] = AfterInvoke(@, answered, response)]
    /\ turn' = [turn EXCEPT !.outcome = IF answered THEN "answered" ELSE "failed"]
    /\ app_pc' = "ready"
    /\ UNCHANGED <<rag_chain, processed_file, session_id, uuids, job>>
    /\ UNCHANGED <<chunkVars, retrVars, first_pass>>

Process ==
    /\ app_pc = "ready"
    /\ \E uploaded_file \in Files, docs \in ChunkedDocuments,
          raises_at \in RaisePoints :
            ProcessPdf(uploaded_file, docs, raises_at)

Ask ==
    /\ app_pc = "ready"
    /\ \E p \in Prompts : SubmitPrompt(p)

Reply ==
    /\ app_pc = "invoking"
    /\ \E answered \in BOOLEAN, response \in Responses :
            InvokeChain(answered, response)

AppNext == Process \/ Render \/ Ask \/ Reply

\* the app: documents processed and questions asked, in any order
SpecApp == AppInit /\ [][AppNext]_vars

\* the elements of a document that is chunked twice
RechunkElements ==
    {El("Title", <<"A">>, 0, None),
     El("NarrativeText", <<"x">>, 0, None),
     El("Image", <<"y">>, 2, None),
     El("Table", <<"x">>, 0, "<table>"),
     El("CheckBox", <<>>, 0, None)}

\* the first pass over a document: one iteration of the loop
FirstStep ==
    /\ pc = "loop"
    /\ ~first_pass.done
    /\ \E el \in RechunkElements :
        \E outcome \in OutcomesFor(use_enhanced_processing, el) :
            ProcessElement(el, outcome)

FirstFinish == ~first_pass.done /\ ChunkFinish

\* partition_and_chunk is called again on the same document with the same
\* arguments: partition_pdf returns the same elements, and the locals start
\* afresh (lines 63-65)
ChunkAgain ==
    /\ pc = "done"
    /\ ~first_pass.done
    /\ first_pass' = [done |-> TRUE, elements |-> raw_pdf_elements,
                      result |-> chunk_result, last_outcome |-> summary_outcome]
    /\ pc' = "loop"
    /\ raw_pdf_elements' = <<>>
    /\ documents' = <<>>
    /\ current_title' = <<>>
    /\ current_text_block' = <<>>
    /\ metadata' = Unbound
    /\ summary_calls' = 0
    /\ summary_outcome' = NotAsked
    /\ chunk_result' = <<>>
    /\ UNCHANGED <<use_enhanced_processing, openai_api_key, dir_created,
                   partition_started>>
    /\ UNCHANGED retrVars
    /\ UNCHANGED appVars

\* the second pass: one iteration, on the element the first pass had at
\* this index; the collaborator answers as it likes
ReplayStep ==
    /\ pc = "loop"
    /\ first_pass.done
    /\ Len(raw_pdf_elements) < Len(first_pass.elements)
    /\ \E outcome \in OutcomesFor(use_enhanced_processing,
                                   first_pass.elements[Len(raw_pdf_elements) + 1]) :
            ProcessElement(first_pass.elements[Len(raw_pdf_elements) + 1], outcome)

ReplayFinish ==
    /\ first_pass.done
    /\ Len(raw_pdf_elements) = Len(first_pass.elements)
    /\ ChunkFinish

RechunkNext ==
    \/ ChunkStart
    \/ FirstStep
    \/ FirstFinish
    \/ ChunkAgain
    \/ ReplayStep
    \/ ReplayFinish

\* the chunker run twice on one document
SpecRechunk == ChunkInit /\ [][RechunkNext]_vars

\* the chunker alone
SpecChunk == ChunkInit /\ [][ChunkNext]_vars

(***************************************************************************)
(* Properties of the chunker.                                              *)
(***************************************************************************)
\* the step is one loop iteration
IsLoopStep == pc = "loop" /\ Len(raw_pdf_elements') = Len(raw_pdf_elements) + 1

\* the element the iteration processes
StepElement == raw_pdf_elements'[Len(raw_pdf_elements')]

\* the page_content of each document, in order
Contents(docs) == [k \in 1..Len(docs) |-> docs[k].page_content]

\* the class and text of each element, in order
Shape(els) == [k \in 1..Len(els) |-> <<els[k].kind, els[k].text>>]

NoKey == {None, ""}

\* C2: when enhanced processing is requested without a credential the chunker
\* raises before any work: no directory is created, no layout extraction is
\* started, no element is processed, no unit is built, nothing is returned.
C2_FailFast ==
    (use_enhanced_processing /\ openai_api_key \in NoKey /\ pc # "start") =>
        /\ pc = "raised"
        /\ ~dir_created
        /\ ~partition_started
        /\ raw_pdf_elements = <<>>
        /\ documents = <<>>
        /\ chunk_result = <<>>
        /\ summary_calls = 0

C2_Witness == use_enhanced_processing /\ openai_api_key = "" /\ pc = "raised"

\* C3 (step): on a Title/Header element a non-empty pending block is emitted
\* as exactly one unit "<title before this element>\n\n<trimmed block>",
\* an empty one emits nothing; the block becomes empty and current_title the
\* element's text.
C3_TitleStep ==
    (IsLoopStep /\ StepElement.kind \in {"Title", "Header"}) =>
        /\ IF current_text_block # <<>>
           THEN /\ Len(documents') = Len(documents) + 1
                /\ SubSeq(documents', 1, Len(documents)) = documents
                /\ documents'[Len(documents')].page_content =
                       current_title \o <<NL, NL>> \o Strip(current_text_block)
           ELSE documents' = documents
        /\ current_text_block' = <<>>
        /\ current_title' = StepElement.text

\* C3 (scenario): [Title A, Text x, Title B, Text y] without enhanced
\* processing returns exactly the units "A\n\nx" and "B\n\ny", in that order.
C3_IsScenario ==
    /\ pc = "done"
    /\ ~use_enhanced_processing
    /\ Shape(raw_pdf_elements) =
           << <<"Title", <<"A">> >>, <<"NarrativeText", <<"x">> >>,
              <<"Title", <<"B">> >>, <<"NarrativeText", <<"y">> >> >>

C3_Scenario ==
    C3_IsScenario =>
        Contents(chunk_result) = << <<"A", NL, NL, "x">>, <<"B", NL, NL, "y">> >>

\* C3: the Title/Header step and the scenario that follows from it.
C3_TitleFlush == [][C3_TitleStep]_vars /\ []C3_Scenario

C3_Witness == C3_IsScenario /\ Len(chunk_result) = 2

\* the image or table elements that enhanced processing summarizes
IsMedia(el) ==
    el.kind = "Image" \/ (el.kind = "Table" /\ el.text_as_html # None)

MediaLabel(el) == IF el.kind = "Image" THEN "[Image under '" ELSE "[Table under '"

\* documents after the pending block, if any, was flushed as one unit
AfterFlush ==
    IF current_text_block # <<>>
    THEN Contents(documents) \o
             << current_title \o <<NL, NL>> \o Strip(current_text_block) >>
    ELSE Contents(documents)

\* C4: with enhanced processing every Image, and every Table with table_html,
\* flushes the pending block and then emits exactly one unit of its own,
\* "[Image under '<title>']\nSummary: S" when the collaborator returns S; the
\* element's text is not accumulated.
C4_MediaStep ==
    (IsLoopStep /\ use_enhanced_processing /\ IsMedia(StepElement)) =>
        /\ current_text_block' = <<>>
        /\ current_title' = current_title
        /\ Len(documents') = Len(AfterFlush) + 1
        /\ SubSeq(Contents(documents'), 1, Len(AfterFlush)) = AfterFlush
        /\ ~summary_outcome'.raised =>
               documents'[Len(documents')].page_content =
                   <<MediaLabel(StepElement)>> \o current_title \o
                       <<"']", NL, "Summary: ">> \o summary_outcome'.summary

\* C4: every loop iteration on an image or table, with enhanced processing,
\* flushes the pending block and emits the element's own summary unit.
C4_EnhancedMedia == [][C4_MediaStep]_vars

\* C5: without enhanced processing an Image or Table element changes nothing:
\* no unit, no flush, no text accumulated, the title kept.
C5_IgnoredStep ==
    (IsLoopStep /\ ~use_enhanced_processing
        /\ StepElement.kind \in {"Image", "Table"}) =>
        UNCHANGED <<documents, current_text_block, current_title>>

\* C5: every loop iteration on an Image or Table, without enhanced
\* processing, leaves the units, the pending block and the title unchanged.
C5_MediaIgnored == [][C5_IgnoredStep]_vars

\* C6: when the collaborator fails on an image or table the pass goes on: it
\* emits exactly one fallback unit "[Image under '<title>']" (or Table) with
\* no summary, keeps the title and the units already emitted, and continues.
C6_FallbackStep ==
    (IsLoopStep /\ use_enhanced_processing /\ IsMedia(StepElement)
        /\ summary_outcome'.raised) =>
        /\ pc' = "loop"
        /\ current_title' = current_title
        /\ Len(documents') = Len(AfterFlush) + 1
        /\ SubSeq(Contents(documents'), 1, Len(AfterFlush)) = AfterFlush
        /\ documents'[Len(documents')].page_content =
               <<MediaLabel(StepElement)>> \o current_title \o <<"']">>

\* C6: every loop iteration on which the summarization collaborator fails
\* emits the one fallback unit and goes on.
C6_Fallback == [][C6_FallbackStep]_vars

\* the text of the last Title/Header among the first n elements, "" if none
RECURSIVE TitleOfFirst(_, _)
TitleOfFirst(els, n) ==
    IF n = 0 THEN <<>>
    ELSE IF els[n].kind \in {"Title", "Header"} THEN els[n].text
    ELSE TitleOfFirst(els, n - 1)

BuiltFromNothing == r_pc # "idle" /\ r_documents = <<>>

RECURSIVE FirstPos(_, _, _)
FirstPos(list, key, from) ==
    IF from > Len(list) THEN 0
    ELSE IF list[from].page_content = key THEN from
    ELSE FirstPos(list, key, from + 1)

\* the fusion has run on dense list [A, B, C] and sparse list [B, D]
C8_IsScenario ==
    /\ r_pc = "fused"
    /\ retriever.weights = <<7, 3>>
    /\ Contents(dense_list) = << <<"A">>, <<"B">>, <<"C">> >>
    /\ Contents(sparse_list) = << <<"B">>, <<"D">> >>

\* C8: for dense list [A, B, C], sparse list [B, D] and weights 0.7/0.3, B is
\* ranked at or above both A and C in the fused result.
C8_BothListsFirst ==
    C8_IsScenario =>
        /\ FirstPos(fused, <<"B">>, 1) > 0
        /\ FirstPos(fused, <<"B">>, 1) <= FirstPos(fused, <<"A">>, 1)
        /\ FirstPos(fused, <<"B">>, 1) <= FirstPos(fused, <<"C">>, 1)

C8_Witness ==
    /\ C8_IsScenario
    /\ Contents(fused) = << <<"B">>, <<"A">>, <<"C">>, <<"D">> >>

\* the fused score of the document at position i of the result, computed
\* from the two candidate lists (times the common denominator)
FusedScore(i) ==
    RrfScore(fused[i].page_content, <<dense_list, sparse_list>>, retriever.weights)

\* the dense rank of the document at position i of the result; a document
\* the dense list lacks ranks behind all of it
DenseRank(i) ==
    LET p == FirstPos(dense_list, fused[i].page_content, 1)
    IN  IF p = 0 THEN Len(dense_list) + 1 ELSE p

\* the place of the document at position i of the result in the order the
\* candidates were handed in: the dense list, then the sparse list
InsertionOrder(i) == FirstPos(dense_list \o sparse_list, fused[i].page_content, 1)

\* C9: the fused result is one total order: by fused score descending, equal
\* scores by lower dense rank and then by insertion order; so the result is
\* determined by the candidate lists and the weights.
C9_TotalOrder ==
    r_pc = "fused" =>
        \A i, j \in 1..Len(fused) :
            i < j =>
                \/ FusedScore(i) > FusedScore(j)
                \/ /\ FusedScore(i) = FusedScore(j)
                   /\ DenseRank(i) < DenseRank(j)
                \/ /\ FusedScore(i) = FusedScore(j)
                   /\ DenseRank(i) = DenseRank(j)
                   /\ InsertionOrder(i) < InsertionOrder(j)

\* a result whose order is neither list's: D of the sparse list alone is
\* placed behind the dense list's A, and B of both lists ahead of it
C9_Witness ==
    /\ r_pc = "fused"
    /\ Contents(dense_list) = << <<"A">>, <<"B">> >>
    /\ Contents(sparse_list) = << <<"D">>, <<"B">> >>
    /\ Contents(fused) = << <<"B">>, <<"A">>, <<"D">> >>

\* the units of a list
Range(list) == {list[i] : i \in 1..Len(list)}

Candidates == Range(dense_list) \cup Range(sparse_list)

\* a question has been answered by the built retriever
Queried == r_pc = "queried"

\* C10 (as claimed): the result holds no unit twice, only candidates, and
\* every candidate, so at most k_dense + k_sparse units.
C10_EveryCandidate ==
    Queried =>
        /\ \A i, j \in 1..Len(fused) : i # j => fused[i] # fused[j]
        /\ Range(fused) \subseteq Candidates
        /\ Candidates \subseteq Range(fused)
        /\ Len(fused) <= KDense + KSparse

\* C10 (amended): the result holds no two units of the same content and only
\* candidates; every candidate is in it or has the same content as a unit in
\* it, which is the first candidate of that content (dense list first); so
\* it has at most as many units as the two lists, each at most as long as
\* its depth.
C10_EveryContent ==
    Queried =>
        /\ \A i, j \in 1..Len(fused) :
               i # j => fused[i].page_content # fused[j].page_content
        /\ Range(fused) \subseteq Candidates
        /\ \A u \in Candidates :
               \E i \in 1..Len(fused) :
                   /\ fused[i].page_content = u.page_content
                   /\ fused[i] = (dense_list \o sparse_list)[InsertionOrder(i)]
        /\ Len(fused) <= Len(dense_list) + Len(sparse_list)
        /\ Len(dense_list) <= KDense
        /\ Len(sparse_list) <= KSparse
        /\ Len(fused) <= KDense + KSparse

\* two candidates of the same content: the result keeps the first of them
C10_Witness ==
    /\ Queried
    /\ dense_list = <<Unit(<<"B">>, 1), Unit(<<"A">>, 4), Unit(<<"A">>, 0)>>
    /\ sparse_list = <<Unit(<<"A">>, 0), Unit(<<"B">>, 1), Unit(<<"A">>, 4)>>
    /\ fused = <<Unit(<<"A">>, 4), Unit(<<"B">>, 1)>>

\* the step rebuilds the ensemble with a larger dense weight, the sparse
\* weight and both candidate lists kept, and fuses again
IsRaiseStep ==
    /\ r_pc \in {"fused", "reweighted"}
    /\ r_pc' = "reweighted"
    /\ retriever'.weights[1] > retriever.weights[1]
    /\ retriever'.weights[2] = retriever.weights[2]
    /\ UNCHANGED <<dense_list, sparse_list>>

\* the contents of the dense list
DenseContents == {dense_list[i].page_content : i \in 1..Len(dense_list)}

\* what the dense list contributes to the score of content key, per unit of
\* weight (times the common denominator)
DenseTerm(key) ==
    ListScore(dense_list, Len(dense_list), key, 1, Denominator(Len(dense_list)))

\* C11 (as claimed, step): raising the dense weight moves no unit of the
\* dense list to a worse position of the fused order.
C11_NeverWorseStep ==
    IsRaiseStep =>
        \A key \in DenseContents :
            FirstPos(fused', key, 1) <= FirstPos(fused, key, 1)

\* C11 (as claimed): weight monotonicity for every unit of the dense list.
C11_NeverWorse == [][C11_NeverWorseStep]_vars

\* C11 (amended, step): raising the dense weight never puts a unit of the
\* dense list behind a unit it was ahead of, unless that unit's content
\* ranks better in the dense list (a larger dense contribution).
C11_NotOvertakenStep ==
    IsRaiseStep =>
        \A i, j \in 1..Len(fused) :
            (/\ i < j
             /\ fused[i].page_content \in DenseContents
             /\ DenseTerm(fused[i].page_content) >= DenseTerm(fused[j].page_content))
            => /\ FirstPos(fused', fused[i].page_content, 1) > 0
               /\ FirstPos(fused', fused[i].page_content, 1)
                      < FirstPos(fused', fused[j].page_content, 1)

\* C11 (amended): weight monotonicity relative to the units that rank no
\* better in the dense list.
C11_NotOvertaken == [][C11_NotOvertakenStep]_vars

\* the dense weight was raised to 0.7 with dense list [A, B] and sparse list
\* [B, A]: A, first in the dense list, is first in the fused order
C11_Witness ==
    /\ r_pc = "reweighted"
    /\ retriever.weights = <<7, 3>>
    /\ Contents(dense_list) = << <<"A">>, <<"B">> >>
    /\ Contents(sparse_list) = << <<"B">>, <<"A">> >>
    /\ Contents(fused) = << <<"A">>, <<"B">> >>

(***************************************************************************)
(* Properties of the chunker's output as a whole.                          *)
(***************************************************************************)
\* the classes of the elements, in order
KindsOf(els) == {els[k].kind : k \in 1..Len(els)}

\* C12: an element sequence without Title or Header gives no unit or exactly
\* one, for either value of enhanced; it gives one exactly when it holds a
\* NarrativeText, ListItem or plain Text element, and that unit is built
\* with the empty title: "" then a blank line then the trimmed text.
C12_UntitledSequence ==
    (pc = "done" /\ KindsOf(raw_pdf_elements) \cap {"Title", "Header"} = {}) =>
        /\ Len(chunk_result) \in {0, 1}
        /\ Len(chunk_result) = 1
              <=> KindsOf(raw_pdf_elements)
                      \cap {"NarrativeText", "ListItem", "Text"} # {}
        /\ \A k \in 1..Len(chunk_result) :
               chunk_result[k].page_content =
                   <<NL, NL>> \o Strip(current_text_block)

\* the units that are flushed text blocks (not image or table units)
RECURSIVE FlushUnits(_, _)
FlushUnits(docs, n) ==
    IF n = 0 THEN 0
    ELSE FlushUnits(docs, n - 1)
         + (IF Head(docs[n].page_content) \in {"[Image under '", "[Table under '"}
            THEN 0 ELSE 1)

\* the element's text goes to the text block
AppendsText(el) ==
    el.kind \in {"NarrativeText", "ListItem", "Text", "Image", "Table"}

\* the element makes the chunker look at the text block and flush it if it
\* is not empty
AsksFlush(enhanced, el) ==
    \/ el.kind \in {"Title", "Header"}
    \/ enhanced /\ ~AppendsText(el)

\* text is pending after the first n elements
RECURSIVE TextPending(_, _, _)
TextPending(enhanced, els, n) ==
    IF n = 0 THEN FALSE
    ELSE IF AsksFlush(enhanced, els[n]) THEN FALSE
    ELSE IF AppendsText(els[n]) THEN TRUE
    ELSE TextPending(enhanced, els, n - 1)

\* the elements among the first n that are reached while text is pending
\* and ask for a flush
RECURSIVE FlushesAmong(_, _, _)
FlushesAmong(enhanced, els, n) ==
    IF n = 0 THEN 0
    ELSE FlushesAmong(enhanced, els, n - 1)
         + (IF AsksFlush(enhanced, els[n]) /\ TextPending(enhanced, els, n - 1)
            THEN 1 ELSE 0)

\* the Title/Header elements among the first n that come after the first
\* element that made the text block non-empty
RECURSIVE TitlesAfterFirstText(_, _, _)
TitlesAfterFirstText(els, n, seen) ==
    IF n > Len(els) THEN 0
    ELSE (IF seen /\ els[n].kind \in {"Title", "Header"} THEN 1 ELSE 0)
         + TitlesAfterFirstText(els, n + 1, seen \/ AppendsText(els[n]))

\* one more flush when text is pending at the end of the sequence
FinalFlush == IF current_text_block # <<>> THEN 1 ELSE 0

\* C13 (as claimed): the number of flushes is the number of Title/Header
\* elements after the first non-empty text block, plus one if and only if
\* text is pending when the sequence ends.
C13_TitlesAfterText ==
    pc = "done" =>
        FlushUnits(chunk_result, Len(chunk_result)) =
            TitlesAfterFirstText(raw_pdf_elements, 1, FALSE) + FinalFlush

\* C13 (amended): the number of flushes is the number of elements that are
\* reached while the text block is non-empty and ask for a flush (every
\* Title/Header; with enhanced processing also every element that goes to
\* the image/table branch), plus one if and only if text is pending when the
\* sequence ends.
C13_FlushCount ==
    /\ pc \in {"loop", "done"} =>
           (current_text_block # <<>>) =
               TextPending(use_enhanced_processing, raw_pdf_elements,
                           Len(raw_pdf_elements))
    /\ pc = "loop" =>
           FlushUnits(documents, Len(documents)) =
               FlushesAmong(use_enhanced_processing, raw_pdf_elements,
                            Len(raw_pdf_elements))
    /\ pc = "done" =>
           FlushUnits(chunk_result, Len(chunk_result)) =
               FlushesAmong(use_enhanced_processing, raw_pdf_elements,
                            Len(raw_pdf_elements)) + FinalFlush

\* text, then two titles in a row, then text: the first title flushes, the
\* second finds nothing pending, the end flushes
C13_Witness ==
    /\ pc = "done"
    /\ [k \in 1..Len(raw_pdf_elements) |-> raw_pdf_elements[k].kind] =
           <<"NarrativeText", "Title", "Title", "NarrativeText">>
    /\ Len(chunk_result) = 2

\* the page a unit triggered by element el is given: the element's page, 1
\* when it has none
PageOf(el) == IF el.page_number = 0 THEN 1 ELSE el.page_number

\* C15 (step): a unit flushed by a loop iteration carries the index and the
\* page of the element that iteration processes.
C15_FlushStep ==
    (IsLoopStep /\ Len(documents') > Len(documents)) =>
        \A k \in (Len(documents) + 1)..Len(documents') :
            /\ documents'[k].metadata.element_id = Len(raw_pdf_elements)
            /\ documents'[k].metadata.page_number = PageOf(StepElement)
            /\ documents'[k].metadata.source = SourceName

\* C15 (result): every unit carries the index and page of an element of the
\* sequence that did not add to the unit's text (every unit but a final
\* flush); the indices do not decrease in output order; a final-flush unit
\* carries the index and page of the last element of the sequence.
C15_Result ==
    pc = "done" =>
        /\ \A k \in 1..Len(chunk_result) :
               LET id == chunk_result[k].metadata.element_id
               IN  /\ id \in 0..(Len(raw_pdf_elements) - 1)
                   /\ chunk_result[k].metadata.page_number =
                          PageOf(raw_pdf_elements[id + 1])
                   /\ (k < Len(chunk_result) \/ current_text_block = <<>>)
                          => AsksFlush(use_enhanced_processing,
                                       raw_pdf_elements[id + 1])
        /\ \A k \in 1..(Len(chunk_result) - 1) :
               chunk_result[k].metadata.element_id
                   <= chunk_result[k + 1].metadata.element_id
        /\ current_text_block # <<>> =>
               /\ chunk_result # <<>>
               /\ chunk_result[Len(chunk_result)].metadata.element_id =
                      Len(raw_pdf_elements) - 1
               /\ chunk_result[Len(chunk_result)].metadata.page_number =
                      PageOf(raw_pdf_elements[Len(raw_pdf_elements)])

\* C15: every flushed unit carries the metadata of the element being
\* processed when it is flushed, the last element for the final flush.
C15_TriggerMetadata == [][C15_FlushStep]_vars /\ []C15_Result

\* text of page 1 flushed by a title of page 2, then text of page 2 flushed
\* at the end with the page of the last element
C15_Witness ==
    /\ pc = "done"
    /\ Len(raw_pdf_elements) = 4
    /\ raw_pdf_elements[3].page_number = 2
    /\ Len(chunk_result) = 2
    /\ chunk_result[1].metadata.element_id = 1
    /\ chunk_result[1].metadata.page_number = 2
    /\ chunk_result[2].metadata.element_id = 3
    /\ chunk_result[2].metadata.page_number = 1

\* both passes over the document have ended
ChunkedTwice == pc = "done" /\ first_pass.done

IsProcessStep == app_pc = "ready" /\ app_pc' = "main"

\* the chain and the file name describe one document, or there is neither
OneDocument ==
    IF processed_file = None THEN rag_chain = NoChain
    ELSE /\ rag_chain # NoChain
         /\ rag_chain.retriever # NoRetriever
         /\ rag_chain.built_from = processed_file

\* C16 (step): a call of process_pdf that does not get through chunking,
\* retriever build and chain construction leaves rag_chain, processed_file
\* and session_id as they were; one that does sets the chain and the file
\* name to the new document and removes session_id; nothing else changes
\* the chain or the file name; and the session id the next render hands
\* out has an empty history.
C16_ProcessStep ==
    /\ (IsProcessStep /\ job'.outcome \notin Processed) =>
           UNCHANGED <<rag_chain, processed_file, session_id>>
    /\ (IsProcessStep /\ job'.outcome \in Processed) =>
           /\ processed_file' = job'.uploaded_file
           /\ rag_chain' # NoChain
           /\ rag_chain'.built_from = job'.uploaded_file
           /\ session_id' = 0
    /\ ~IsProcessStep => UNCHANGED <<rag_chain, processed_file>>
    /\ (session_id = 0 /\ session_id' # 0) => redis'[session_id'] = <<>>

\* C16 (state): rag_chain and processed_file are both None or describe the
\* same document, and right after a call of process_pdf that got through
\* they describe the document of that call.
C16_State ==
    /\ OneDocument
    /\ (app_pc = "main" /\ job.outcome \in Processed) =>
           /\ processed_file = job.uploaded_file
           /\ session_id = 0

History == IF session_id = 0 THEN <<>> ELSE redis[session_id]

\* the number of messages of a type among the first n
RECURSIVE CountType(_, _, _)
CountType(messages, type, n) ==
    IF n = 0 THEN 0
    ELSE CountType(messages, type, n - 1)
         + (IF messages[n].type = type THEN 1 ELSE 0)

\* prompts in order, each followed by at most one AI message
PromptsWithReplies(messages) ==
    /\ \A k \in 1..Len(messages) :
           messages[k].type = "ai" => (k > 1 /\ messages[k - 1].type = "human")
    /\ CountType(messages, "ai", Len(messages))
           <= CountType(messages, "human", Len(messages))

\* C17 (step): a turn appends the user's prompt to the session's history
\* and then invokes the chain; the invocation appends one AI message if it
\* succeeds and nothing if it fails; no other step changes a history.
C17_TurnStep ==
    /\ (app_pc = "ready" /\ app_pc' = "invoking") =>
           /\ session_id' # 0
           /\ redis' = [redis EXCEPT ![session_id'] =
                            Append(@, HumanMessage(turn'.prompt))]
    /\ (app_pc = "invoking" /\ app_pc' = "ready") =>
           /\ session_id' = session_id
           /\ turn'.outcome = "answered" =>
                  /\ Len(redis'[session_id]) = Len(redis[session_id]) + 1
                  /\ SubSeq(redis'[session_id], 1, Len(redis[session_id]))
                         = redis[session_id]
                  /\ redis'[session_id][Len(redis'[session_id])].type = "ai"
           /\ turn'.outcome # "answered" => redis' = redis
           /\ \A id \in 1..MaxIds : id # session_id => redis'[id] = redis[id]
    /\ (app_pc' # "invoking" /\ app_pc # "invoking") => redis' = redis

\* C17 (state): while the chain is invoked the history ends with the user's
\* prompt; every history is prompts in order, each followed by at most one
\* AI message, with no more AI messages than user messages.
C17_State ==
    /\ app_pc = "invoking" =>
           /\ History # <<>>
           /\ History[Len(History)] = HumanMessage(turn.prompt)
    /\ \A id \in 1..MaxIds : PromptsWithReplies(redis[id])

\* C17: the history of every chat turn.
C17_History == [][C17_TurnStep]_vars /\ []C17_State

\* a turn whose invocation failed, then one that was answered
C17_Witness ==
    /\ app_pc = "ready"
    /\ turn.outcome = "answered"
    /\ History = <<HumanMessage("q1"), HumanMessage("q2"), AIMessage("r")>>

====
